---- MODULE Spec2Model ----
(***************************************************************************)
(* A model of jhsiao/scope.py: class Scope, a context manager that records *)
(* the names of a mapping (a frame's f_locals or a dict given as `state`)  *)
(* at __enter__ and reports the names added since.                          *)
(*                                                                         *)
(* A name is a sequence of characters, so that str.startswith and the      *)
(* difference between set.add(str) and set.update(str) are computed.       *)
(* The observed mapping is a function whose DOMAIN is its key set.         *)
(* A generator returned by items() is a record: its body runs only when    *)
(* an element is requested (NextItem), as a Python generator's does.       *)
(***************************************************************************)
EXTENDS Naturals, Sequences, FiniteSets

\* ---------------------------------------------------------------- bounds
\* The values bound to names are 0..MaxVal; 0 stands for Python's None.
MaxVal == 1

\* ------------------------------------------------------------ input sets
\* Names bound in the observed mapping: 'x', 'th' and '_h'.
Names == { <<"x">>, <<"t", "h">>, <<"_", "h">> }
Values == 0..MaxVal
\* An exception in flight when the with block is left, or "None".
Excs == { "None", "ValueError" }

None == [tag |-> "None"]
Some(S) == [tag |-> "set", val |-> S]

\* The values given to Scope(extras=...): None, a str, or a collection.
ExtrasChoices ==
    { None,
      [tag |-> "str", name |-> <<"t", "h">>],
      [tag |-> "coll", names |-> { <<"t", "h">>, <<"x">> }] }

\* The generators of items() the caller holds: a new call of items() takes the
\* place of a generator the caller has dropped.
GenIds == { "g1" }

VARIABLES
    ignore_,    \* self.ignore_
    extras,     \* self.extras
    f_locals,   \* self.f_locals: "None" or "state" (a reference to the mapping)
    pframe,     \* self.pframe: "None", "self" or "frame" (the caller's frame)
    starters,   \* self._starters: None or Some(set of names)
    locs,       \* the observed mapping (state, or the caller frame's f_locals)
    gens,       \* the generators returned by items()
    ret,        \* the outcome of the last call
    snap,       \* history: the mapping's key set at the last __enter__ or update()
    ghist       \* history: what changed since each generator was made

vars == <<ignore_, extras, f_locals, pframe, starters, locs, gens, ret, snap, ghist>>

\* ------------------------------------------------------- pure operations
\* str.startswith
startswith(k, p) == Len(k) >= Len(p) /\ SubSeq(k, 1, Len(p)) = p

\* iterating a dict gives its keys
Keys(m) == DOMAIN m

\* Mutant of EnterStarters: no isinstance test, so that a str given as extras is
\* iterated by set.update and its characters are added, each a str of length 1.
EnterStarters_Iterate(keys, ex) ==
    IF ex = None THEN keys
    ELSE IF ex.tag = "str" THEN keys \cup { <<ex.name[i]>> : i \in 1..Len(ex.name) }
    ELSE keys \cup ex.names

\* __enter__, lines 39-45: set(f_locals), then add (a str) or update (a collection).
EnterStarters(keys, ex) ==
    IF ex = None THEN keys
    ELSE IF ex.tag = "str" THEN keys \cup {ex.name}
    ELSE keys \cup ex.names

\* Mutant of DiffSet: a name bound to None (0) is taken for an unbound one.
DiffSet_SkipNone(m, ign, st) ==
    { k \in Keys(m) : m[k] # 0 /\ ~(ign /\ startswith(k, <<"_">>)) } \ st

\* diff, lines 59-61
DiffSet(m, ign, st) ==
    { k \in Keys(m) : ~(ign /\ startswith(k, <<"_">>)) } \ st

\* Mutant of ItemsKeys: the baseline is not taken off.
ItemsKeys_All(m, st) == Keys(m)

\* items, line 67: the set iterated by the for loop
ItemsKeys(m, st) == Keys(m) \ st

\* Mutant of ItemsPass: items() forgets the underscore test that diff() makes.
ItemsPass_All(ign, k) == TRUE

\* items, line 68: the test a name passes to be yielded
ItemsPass(ign, k) == ~(ign /\ startswith(k, <<"_">>))

\* Mutant of CaptureLocs: locs = dict(self.pframe.f_locals), a copy of the values.
CaptureLocs_Copy(m) == [tag |-> "copy", map |-> m]

\* items, line 65: locs is a reference to the mapping, not a copy
CaptureLocs(m) == [tag |-> "ref"]

\* the mapping a generator's local `locs` refers to
Deref(l) == IF l.tag = "ref" THEN locs ELSE l.map

\* __exit__ returns None, which is false: the exception in flight is re-raised
Truthy(v) == v # "None"

\* A generator: st is "none" (no such object), "created" (no line of the body has
\* run), "running" (suspended at the yield), "exhausted" (the loop ran to its end)
\* or "failed" (the body raised); locs and pending are the body's locals.
\* History, kept while the generator has not ended: out, the names yielded; n,
\* the number of yields. The request that ends a generator reports in ret.hist
\* this history and that of ghist.
NoGen == [st |-> "none", locs |-> None, pending |-> {}, out |-> {}, n |-> 0]

Live(gen) == gen.st \in {"created", "running"}

Ended(how) == [NoGen EXCEPT !.st = how]

\* History of a generator: dmap, whether the mapping changed since the call of
\* items(); dbase, what changed the baseline since that call ("no", "update", or
\* "enter" when __enter__ was called again).
Clean == [dmap |-> FALSE, dbase |-> "no"]

Hist(g, gen) == [out |-> gen.out, n |-> gen.n,
                 dmap |-> ghist[g].dmap, dbase |-> ghist[g].dbase]

\* ------------------------------------------------------------------ Init
\* __init__, lines 24-27
Init ==
    /\ ignore_ \in BOOLEAN
    /\ extras \in ExtrasChoices
    /\ f_locals \in {"None", "state"}
    /\ pframe = "None"
    /\ starters = None
    /\ locs = << >>
    /\ gens = [g \in GenIds |-> NoGen]
    /\ ret = [op |-> "init", kind |-> "return"]
    /\ snap = None
    /\ ghist = [g \in GenIds |-> Clean]

\* --------------------------------------------------------------- actions
\* __enter__, lines 29-46. frameOK: inspect.currentframe() is not None.
Enter(frameOK) ==
    IF f_locals = "None" /\ ~frameOK
    THEN /\ ret' = [op |-> "enter", kind |-> "raise", val |-> "Exception"]
         /\ UNCHANGED <<ignore_, extras, f_locals, pframe, starters, locs, gens>>
    ELSE /\ pframe' = IF f_locals = "None" THEN "frame" ELSE "self"
         /\ starters' = Some(EnterStarters(Keys(locs), extras))
         /\ ret' = [op |-> "enter", kind |-> "return", val |-> "self"]
         /\ UNCHANGED <<ignore_, extras, f_locals, locs, gens>>

\* Mutant of Exit: the frame is not released.
Exit_KeepFrame(exc) ==
    /\ ret' = [op |-> "exit", kind |-> "return", val |-> "None", exc |-> exc]
    /\ UNCHANGED <<ignore_, extras, f_locals, pframe, starters, locs, gens>>

\* __exit__, lines 48-49. exc: the exception in flight, or "None".
Exit(exc) ==
    /\ pframe' = "None"
    /\ ret' = [op |-> "exit", kind |-> "return", val |-> "None", exc |-> exc]
    /\ UNCHANGED <<ignore_, extras, f_locals, starters, locs, gens>>

\* Mutant of Update: set.union in place of set.update; the union is thrown away.
Update_NoEffect ==
    /\ ret' = IF starters = None \/ pframe = "None"
              THEN [op |-> "update", kind |-> "raise", val |-> "AttributeError"]
              ELSE [op |-> "update", kind |-> "return", val |-> "None"]
    /\ UNCHANGED <<ignore_, extras, f_locals, pframe, starters, locs, gens>>

\* Mutant of Update: the baseline is replaced by the current key set.
Update_Replace ==
    IF starters = None \/ pframe = "None"
    THEN /\ ret' = [op |-> "update", kind |-> "raise", val |-> "AttributeError"]
         /\ UNCHANGED <<ignore_, extras, f_locals, pframe, starters, locs, gens>>
    ELSE /\ starters' = Some(Keys(locs))
         /\ ret' = [op |-> "update", kind |-> "return", val |-> "None"]
         /\ UNCHANGED <<ignore_, extras, f_locals, pframe, locs, gens>>

\* update, lines 51-53. self._starters.update is looked up first, then
\* self.pframe.f_locals is evaluated: either fails on None with AttributeError.
Update ==
    IF starters = None \/ pframe = "None"
    THEN /\ ret' = [op |-> "update", kind |-> "raise", val |-> "AttributeError"]
         /\ UNCHANGED <<ignore_, extras, f_locals, pframe, starters, locs, gens>>
    ELSE /\ starters' = Some(starters.val \cup Keys(locs))
         /\ ret' = [op |-> "update", kind |-> "return", val |-> "None"]
         /\ UNCHANGED <<ignore_, extras, f_locals, pframe, locs, gens>>

\* Mutant of Diff: an inactive tracker answers with an empty set.
Diff_SilentEmpty ==
    /\ ret' = [op |-> "diff", kind |-> "return",
               val |-> IF pframe = "None" THEN {}
                       ELSE DiffSet(locs, ignore_, starters.val)]
    /\ UNCHANGED <<ignore_, extras, f_locals, pframe, starters, locs, gens>>

\* Mutant of Diff: the names reported are absorbed into the baseline.
Diff_Absorb ==
    /\ ret' = IF pframe = "None"
              THEN [op |-> "diff", kind |-> "raise", val |-> "AttributeError"]
              ELSE [op |-> "diff", kind |-> "return",
                    val |-> DiffSet(locs, ignore_, starters.val)]
    /\ starters' = IF pframe = "None" THEN starters
                   ELSE Some(starters.val \cup DiffSet(locs, ignore_, starters.val))
    /\ UNCHANGED <<ignore_, extras, f_locals, pframe, locs, gens>>

\* diff, lines 55-61
Diff ==
    /\ ret' = IF pframe = "None"
              THEN [op |-> "diff", kind |-> "raise", val |-> "AttributeError"]
              ELSE [op |-> "diff", kind |-> "return",
                    val |-> DiffSet(locs, ignore_, starters.val)]
    /\ UNCHANGED <<ignore_, extras, f_locals, pframe, starters, locs, gens>>

\* items, lines 63-69: the call only makes the generator; no line of the body runs.
Items(g) ==
    /\ gens' = [gens EXCEPT ![g] = [NoGen EXCEPT !.st = "created"]]
    /\ ret' = [op |-> "items", kind |-> "return", val |-> "generator", g |-> g]
    /\ UNCHANGED <<ignore_, extras, f_locals, pframe, starters, locs>>

\* The for loop of items, lines 67-69, from a generator whose names left to visit
\* are `pending`: the next request ends at the first name that passes the test
\* (a yield, or KeyError when the name is gone from the mapping) or at the end of
\* the set (StopIteration). A set is iterated in an order the caller cannot choose.
Loop(g, gen) ==
    LET pass == { k \in gen.pending : ItemsPass(ignore_, k) }
        m == Deref(gen.locs)
    IN  IF pass = {}
        THEN /\ gens' = [gens EXCEPT ![g] = Ended("exhausted")]
             /\ ret' = [op |-> "next", kind |-> "raise", val |-> "StopIteration",
                        g |-> g, hist |-> Hist(g, gen)]
        ELSE \E k \in pass :
               IF k \in Keys(m)
               THEN /\ gens' = [gens EXCEPT ![g] =
                                  [gen EXCEPT !.st = "running",
                                              !.pending = gen.pending \ {k},
                                              !.out = gen.out \cup {k},
                                              !.n = gen.n + 1]]
                    /\ ret' = [op |-> "next", kind |-> "yield",
                               val |-> <<k, m[k]>>, g |-> g]
               ELSE /\ gens' = [gens EXCEPT ![g] = Ended("failed")]
                    /\ ret' = [op |-> "next", kind |-> "raise", val |-> "KeyError",
                               g |-> g, hist |-> Hist(g, gen)]

\* next() on a generator of items. The first request runs lines 65-67; a
\* generator that has ended raises StopIteration again.
NextItem(g) ==
    /\ gens[g].st # "none"
    /\ CASE gens[g].st = "created" ->
              IF pframe = "None"
              THEN /\ gens' = [gens EXCEPT ![g] = Ended("failed")]
                   /\ ret' = [op |-> "next", kind |-> "raise",
                              val |-> "AttributeError", g |-> g,
                              hist |-> Hist(g, gens[g])]
              ELSE Loop(g, [gens[g] EXCEPT !.locs = CaptureLocs(locs),
                                           !.pending = ItemsKeys(locs, starters.val)])
         [] gens[g].st = "running" -> Loop(g, gens[g])
         [] gens[g].st \in {"exhausted", "failed"} ->
              /\ gens' = gens
              /\ ret' = [op |-> "next", kind |-> "raise", val |-> "StopIteration",
                         g |-> g, hist |-> None]
    /\ UNCHANGED <<ignore_, extras, f_locals, pframe, starters, locs>>

\* The caller binds a name in the observed mapping (a new key, or a new value).
Bind(k, v) ==
    /\ k \in Keys(locs) => locs[k] # v
    /\ locs' = [j \in Keys(locs) \cup {k} |-> IF j = k THEN v ELSE locs[j]]
    /\ ret' = [op |-> "bind", kind |-> "return"]
    /\ UNCHANGED <<ignore_, extras, f_locals, pframe, starters, gens>>

\* The caller deletes a name from the observed mapping.
Del(k) ==
    /\ k \in Keys(locs)
    /\ locs' = [j \in Keys(locs) \ {k} |-> locs[j]]
    /\ ret' = [op |-> "del", kind |-> "return"]
    /\ UNCHANGED <<ignore_, extras, f_locals, pframe, starters, gens>>

\* History: the key set at the last __enter__ or update().
TrackAll ==
    snap' = IF ret'.kind = "return" /\ ret'.op \in {"enter", "update"}
            THEN [op |-> ret'.op, keys |-> Keys(locs)]
            ELSE snap

\* History: the key set at __enter__, until the first update().
TrackEnter ==
    snap' = IF ret'.kind = "return" /\ ret'.op = "enter"
            THEN [op |-> "enter", keys |-> Keys(locs)]
            ELSE IF ret'.kind = "return" /\ ret'.op = "update" THEN None
            ELSE snap

\* History: what changed since each generator that has not ended was made.
TrackGens ==
    ghist' = [g \in GenIds |->
                IF ~Live(gens'[g]) \/ (ret'.op = "items" /\ ret'.g = g) THEN Clean
                ELSE IF ret'.op \in {"bind", "del"} THEN [ghist[g] EXCEPT !.dmap = TRUE]
                ELSE IF ret'.op = "enter" /\ ret'.kind = "return"
                     THEN [ghist[g] EXCEPT !.dbase = "enter"]
                ELSE IF ret'.op = "update" /\ ret'.kind = "return"
                        /\ ghist[g].dbase = "no"
                     THEN [ghist[g] EXCEPT !.dbase = "update"]
                ELSE ghist[g]]

HistCore == TrackAll /\ UNCHANGED ghist
HistItems == TrackGens /\ UNCHANGED snap
HistExtras == TrackEnter /\ UNCHANGED ghist

\* The tracker's calls that return at once, and the caller's changes of the mapping.
NextCore ==
    \/ \E ok \in BOOLEAN : Enter(ok) /\ HistCore
    \/ \E e \in Excs : Exit(e) /\ HistCore
    \/ Update /\ HistCore
    \/ Diff /\ HistCore
    \/ \E k \in Names, v \in Values : Bind(k, v) /\ HistCore
    \/ \E k \in Names : Del(k) /\ HistCore

\* The same with items() and the requests made of its generators.
Next ==
    \/ \E ok \in BOOLEAN : Enter(ok) /\ HistItems
    \/ \E e \in Excs : Exit(e) /\ HistItems
    \/ Update /\ HistItems
    \/ Diff /\ HistItems
    \/ \E g \in GenIds : Items(g) /\ HistItems
    \/ \E g \in GenIds : NextItem(g) /\ HistItems
    \/ \E k \in Names, v \in Values : Bind(k, v) /\ HistItems
    \/ \E k \in Names : Del(k) /\ HistItems

\* All the calls, with the history of the key set at __enter__.
NextExtras ==
    \/ \E ok \in BOOLEAN : Enter(ok) /\ HistExtras
    \/ \E e \in Excs : Exit(e) /\ HistExtras
    \/ Update /\ HistExtras
    \/ Diff /\ HistExtras
    \/ \E g \in GenIds : Items(g) /\ HistExtras
    \/ \E g \in GenIds : NextItem(g) /\ HistExtras
    \/ \E k \in Names, v \in Values : Bind(k, v) /\ HistExtras
    \/ \E k \in Names : Del(k) /\ HistExtras

\* A tracker made with `state`: the mapping is a dict the caller gave.
InitItems == Init /\ f_locals = "state"

\* A tracker made without `state`: the mapping is the caller frame's f_locals,
\* where the with statement binds the tracker's own name.
InitReflect == Init /\ f_locals = "None"

Spec == Init /\ [][NextCore]_vars

SpecItems == InitItems /\ [][Next]_vars

SpecExtras == InitReflect /\ [][NextExtras]_vars

\* ================================================================ claims
\* a name that starts with '_'
Under(k) == Len(k) > 0 /\ k[1] = "_"

\* the names given as extras
ExtrasNames ==
    IF extras = None THEN {} ELSE IF extras.tag = "str" THEN {extras.name} ELSE extras.names

Returned(op) == ret.op = op /\ ret.kind = "return"

\* the names that are keys of the mapping now, are not in the baseline, and are
\* not hidden by the underscore filter
NewNames == { k \in DOMAIN locs : k \notin starters.val /\ ~(ignore_ /\ Under(k)) }

\* a request that found the generator's loop at its end, with neither the mapping
\* nor the baseline changed since the call of items()
ExhaustedClean ==
    /\ ret.op = "next" /\ ret.kind = "raise" /\ ret.val = "StopIteration"
    /\ ret.hist # None
    /\ ~ret.hist.dmap /\ ret.hist.dbase = "no"

\* the tracker reaches the mapping through one of its fields
HoldsMapping == f_locals = "state" \/ pframe = "frame"

\* ---------------------------------------------------------------- C1
\* C1: on an active tracker diff() returns exactly the keys of the mapping at the
\* call that are not in the baseline, less the names starting with '_' when
\* ignore_ is true; the values bound play no part.
C1_DiffExact ==
    (ret.op = "diff" /\ pframe # "None") =>
        /\ ret.kind = "return"
        /\ ret.val = NewNames

\* diff() reported a name bound to None while it hid an underscore name
C1_Witness ==
    /\ Returned("diff") /\ ignore_
    /\ <<"_", "h">> \in DOMAIN locs \ starters.val
    /\ \E k \in ret.val : locs[k] = 0

\* ---------------------------------------------------------------- C2
\* C2 as stated: a call of diff(), update() or items() on an inactive tracker
\* fails at the call (the AttributeError raised on the None frame is the failure
\* the specification calls InvalidStateError).
C2_Original ==
    [][(pframe = "None" /\ ret'.op \in {"diff", "update", "items"})
         => (ret'.kind = "raise" /\ ret'.val = "AttributeError")]_vars

\* C2 as amended: on an inactive tracker diff() and update() fail at the call and
\* change nothing; items() returns a generator without failing, and the first
\* request made of that generator while the tracker is inactive fails, no pair
\* having been yielded.
C2_Amended ==
    [][pframe = "None" =>
         /\ ret'.op \in {"diff", "update"} =>
               /\ ret'.kind = "raise" /\ ret'.val = "AttributeError"
               /\ starters' = starters /\ locs' = locs
         /\ ret'.op = "items" =>
               /\ ret'.kind = "return"
               /\ gens'[ret'.g].st = "created"
         /\ (ret'.op = "next" /\ gens[ret'.g].st = "created") =>
               /\ ret'.kind = "raise" /\ ret'.val = "AttributeError"
               /\ ret'.hist.n = 0
               /\ gens'[ret'.g].st = "failed"]_vars

\* after __exit__, the first request made of a generator of items() failed
C2_Witness ==
    /\ ret.op = "next" /\ ret.kind = "raise" /\ ret.val = "AttributeError"
    /\ starters # None /\ pframe = "None"

\* ---------------------------------------------------------------- C3
\* C3 as stated: after update(), diff() reports exactly the names added to the
\* mapping after that update, less the underscore names when ignore_ is true.
C3_Original ==
    (Returned("diff") /\ snap # None /\ snap.op = "update") =>
        ret.val = { k \in DOMAIN locs \ snap.keys : ~(ignore_ /\ Under(k)) }

\* C3 as amended: after update(), diff() is empty while the key set is the one
\* update() saw, reports no name that update() saw, and reports exactly the
\* names added after that update that are not in the baseline already, less
\* the underscore names when ignore_ is true.
C3_Amended ==
    (Returned("diff") /\ snap # None /\ snap.op = "update") =>
        /\ ret.val = { k \in DOMAIN locs \ snap.keys :
                         ~(ignore_ /\ Under(k)) /\ k \notin starters.val }
        /\ ret.val \cap snap.keys = {}
        /\ (DOMAIN locs = snap.keys => ret.val = {})

\* after an update() that saw a name, diff() reported a later name and left out
\* another later name, one the baseline held already
C3_Witness ==
    /\ Returned("diff") /\ snap # None /\ snap.op = "update"
    /\ snap.keys # {} /\ ret.val # {}
    /\ \E k \in DOMAIN locs \ snap.keys : k \in starters.val

\* ---------------------------------------------------------------- C4
\* C4: with ignore_ true no name starting with '_' is in a result of diff() or
\* yielded by items(); with ignore_ false an underscore name that is bound and not
\* in the baseline is in diff() and among the names a fully consumed items()
\* yielded.
C4_Underscore ==
    /\ ignore_ =>
          /\ Returned("diff") => \A k \in ret.val : ~Under(k)
          /\ ret.kind = "yield" => ~Under(ret.val[1])
          /\ \A g \in GenIds : \A k \in gens[g].out : ~Under(k)
    /\ ~ignore_ =>
          /\ Returned("diff") =>
                \A k \in DOMAIN locs \ starters.val : Under(k) => k \in ret.val
          /\ ExhaustedClean =>
                \A k \in DOMAIN locs \ starters.val : Under(k) => k \in ret.hist.out

\* with ignore_ true, items() was consumed to its end and yielded a name while a
\* new underscore name was bound
C4_Witness ==
    /\ ignore_ /\ ExhaustedClean
    /\ <<"_", "h">> \in DOMAIN locs \ starters.val
    /\ ret.hist.n >= 1

\* ---------------------------------------------------------------- C5
\* what C5 says of __enter__ and of the names given as extras
C5_Extras ==
    /\ Returned("enter") => starters.val = DOMAIN locs \cup ExtrasNames
    /\ Returned("diff") => ret.val \cap ExtrasNames = {}
    /\ ret.kind = "yield" => ret.val[1] \notin ExtrasNames

\* C5 as stated: __enter__ sets the baseline to the key set united with extras, no
\* name of extras is reported by diff() or items(), and (before any update()) a
\* name bound after __enter__ that is not in extras is reported by diff(), which
\* is {t} for a tracker bound to t without extras.
C5_Original ==
    /\ C5_Extras
    /\ (Returned("diff") /\ snap # None) =>
          /\ \A k \in DOMAIN locs \ snap.keys : k \notin ExtrasNames => k \in ret.val
          /\ \A t \in Names :
                (extras = None /\ DOMAIN locs \ snap.keys = {t}) => ret.val = {t}

\* C5 as amended: the same, for the names bound after __enter__ that the
\* underscore filter does not hide (any name when ignore_ is false).
C5_Amended ==
    /\ C5_Extras
    /\ (Returned("diff") /\ snap # None) =>
          /\ \A k \in DOMAIN locs \ snap.keys :
                (k \notin ExtrasNames /\ ~(ignore_ /\ Under(k))) => k \in ret.val
          /\ \A t \in Names :
                (extras = None /\ DOMAIN locs \ snap.keys = {t}
                    /\ ~(ignore_ /\ Under(t))) => ret.val = {t}

\* the name given as extras was bound after __enter__, and diff() reported
\* another name bound after __enter__
C5_Witness ==
    /\ Returned("diff") /\ snap # None
    /\ extras # None /\ extras.tag = "str"
    /\ extras.name \in DOMAIN locs \ snap.keys
    /\ ret.val # {}

\* ---------------------------------------------------------------- C6
\* C6: the baseline is changed by __enter__ and update() alone (not by diff(),
\* items(), a request made of a generator of items(), or __exit__), and no call
\* of the tracker changes the mapping.
C6_Frame ==
    [][/\ starters' # starters => ret'.op \in {"enter", "update"}
       /\ locs' # locs => ret'.op \in {"bind", "del"}]_vars

\* a generator of items() yielded a name, which the baseline still lacks
C6_Witness ==
    /\ ret.kind = "yield" /\ pframe # "None"
    /\ ret.val[1] \notin starters.val

\* ---------------------------------------------------------------- C7
\* C7: items() consumed to its end, with no change of the mapping or of the
\* baseline since the call, yielded each name of diff() once and no other name,
\* and each pair carried the value the mapping holds for its name.
C7_ItemsMatchDiff ==
    /\ ExhaustedClean =>
          /\ ret.hist.out = NewNames
          /\ ret.hist.n = Cardinality(NewNames)
    /\ ret.kind = "yield" =>
          /\ ret.val[1] \in DOMAIN locs
          /\ ret.val[2] = locs[ret.val[1]]
          /\ ret.val[1] \notin gens[ret.g].pending

\* items() was consumed to its end and yielded two pairs
C7_Witness == ExhaustedClean /\ ret.hist.n >= 2

\* ---------------------------------------------------------------- C8
\* C8 as stated: after __exit__ no field of the tracker refers to the mapping,
\* whether it came from the caller's frame or was given as `state`, and __exit__
\* does not suppress the exception in flight.
C8_Original ==
    ret.op = "exit" => (~HoldsMapping /\ ~Truthy(ret.val))

\* C8 as amended: __exit__ sets pframe to None on every path and does not
\* suppress the exception in flight; after it the tracker refers to the mapping
\* exactly when the mapping was given as `state`, through f_locals.
C8_Amended ==
    ret.op = "exit" =>
        /\ pframe = "None"
        /\ ~Truthy(ret.val)
        /\ HoldsMapping <=> f_locals = "state"

\* a tracker that took the mapping from the caller's frame was left by an
\* exception
C8_Witness ==
    /\ ret.op = "exit" /\ ret.exc = "ValueError"
    /\ f_locals = "None" /\ starters # None

\* ---------------------------------------------------------------- C9
\* C9: a pair yielded by a generator of items() carries the value the mapping
\* holds for its name when the pair is produced, and a call of items() makes a
\* fresh generator that has read nothing of the mapping yet.
C9_LiveValues ==
    /\ ret.kind = "yield" =>
          \E k \in DOMAIN locs : ret.val = <<k, locs[k]>>
    /\ Returned("items") => gens[ret.g] = [NoGen EXCEPT !.st = "created"]

\* a pair was yielded after the mapping had changed since the call of items(),
\* and after another pair
C9_Witness ==
    /\ ret.kind = "yield"
    /\ ghist[ret.g].dmap /\ gens[ret.g].n >= 2

\* ---------------------------------------------------------------- C10
\* the baseline never loses a name, and update() sets it to its union with the
\* key set
C10_Grows ==
    /\ (starters # None /\ ret'.op # "enter") =>
          (starters' # None /\ starters.val \subseteq starters'.val)
    /\ (ret'.op = "update" /\ ret'.kind = "return") =>
          starters'.val = starters.val \cup DOMAIN locs

\* C10 as stated: the baseline only grows, and no name of the baseline is
\* reported by diff() or yielded by items() (by a generator made since the last
\* __enter__).
C10_Original ==
    /\ [][C10_Grows]_vars
    /\ [](Returned("diff") => ret.val \cap starters.val = {})
    /\ []((ret.kind = "yield" /\ ghist[ret.g].dbase # "enter")
            => ret.val[1] \notin starters.val)

\* the names a generator of items() yields are fixed at the first request made of
\* it, none of them in the baseline then, and later requests only take from them
C10_ItemsStep ==
    ret'.op = "next" =>
        IF gens[ret'.g].st = "created"
        THEN starters # None =>
               /\ gens'[ret'.g].pending \cap starters.val = {}
               /\ ret'.kind = "yield" => ret'.val[1] \notin starters.val
        ELSE /\ gens'[ret'.g].pending \subseteq gens[ret'.g].pending
             /\ ret'.kind = "yield" => ret'.val[1] \in gens[ret'.g].pending

\* C10 as amended: the baseline only grows, no name of the baseline is reported
\* by diff(), and the names a generator of items() yields are among those that
\* were not in the baseline at the first request made of it.
C10_Amended ==
    /\ [][C10_Grows /\ C10_ItemsStep]_vars
    /\ [](Returned("diff") => ret.val \cap starters.val = {})

\* update() kept in the baseline a name that is gone from the mapping
C10_Witness ==
    /\ Returned("update")
    /\ (starters.val \ DOMAIN locs) \ ExtrasNames # {}

====
